---- MODULE Spec2Model ----
(***************************************************************************)
(* Model of talilukatski/InfluenceInGraph.                                 *)
(*                                                                         *)
(*   Praducci_simulation.py  : create_graph, buy_products,                 *)
(*                             product_exposure_score,                     *)
(*                             get_influencers_cost and the __main__ run.  *)
(*   selection_of_nodes.py   : select_influencers,                         *)
(*                             compute_avg_marginal_gain,                  *)
(*                             greedy_influencer_selection and the         *)
(*                             module-level script that chains them.       *)
(*                                                                         *)
(* Three specifications share one set of variables:                        *)
(*   Spec        the __main__ run of Praducci_simulation.py                *)
(*   SpecSelect  the script of selection_of_nodes.py                       *)
(*   SpecFn      direct calls of buy_products / product_exposure_score on  *)
(*               an arbitrary nx.Graph (isolated nodes included) and an    *)
(*               arbitrary purchased set                                   *)
(*                                                                         *)
(* Random samples, costs and gains are exact rationals <<num, den>>.       *)
(***************************************************************************)
EXTENDS Integers, Sequences, FiniteSets, TLC

VARIABLES
    pc,               \* position of the running script / last call's outcome
    net,              \* the nx.Graph: [nodes |-> set of ids, edges |-> set of {u, v}]
    costs,            \* the cost table read from cost_path: a function user -> cost
    influencers,      \* the influencer list (main) / the candidate list (greedy)
    influencers_cost, \* __main__: result of get_influencers_cost
    purchased,        \* the purchased set
    i,                \* __main__: rounds finished; SpecFn: calls made
    score,            \* None, or Some(result of product_exposure_score)
    rng_max,          \* history: the largest sample random.uniform has returned so far
    purchased0,       \* history: the purchased set before any round
    S,                \* greedy: the selected set
    total_cost,       \* greedy: cost spent so far
    budget,           \* greedy: the budget parameter
    best_v,           \* greedy: None or Some(v)
    best_value,       \* greedy: gain of best_v
    idx,              \* greedy: position of the for loop in influencers
    gains,            \* history: the gains sampled so far in the round under way
    given             \* history: the candidate list as select_influencers returned it

vars == <<pc, net, costs, influencers, influencers_cost, purchased, i, score,
          rng_max, purchased0, S, total_cost, budget, best_v, best_value, idx,
          gains, given>>

mainVars == <<influencers_cost, purchased, i, score, rng_max, purchased0>>
greedyVars == <<S, total_cost, budget, best_v, best_value, idx, gains, given>>

(***************************************************************************)
(* Bounds and program constants                                            *)
(***************************************************************************)
\* node identifiers are 1 .. MaxId
MaxId == 4
\* the iterations parameter of compute_avg_marginal_gain (default 50)
Iterations == 2
\* SpecFn: number of calls made on one graph
MaxCalls == 3
\* range(6) of the __main__ loop
Rounds == 6
\* the ceiling of the __main__ cost check
CostCeiling == 1000
\* defaults of select_influencers and greedy_influencer_selection
top_n == 100
max_cost == 300
budget_default == 1000

IDs == 1 .. MaxId

None == <<>>
Some(v) == <<v>>

Range(s) == {s[k] : k \in DOMAIN s}

(***************************************************************************)
(* Rationals <<num, den>>, den > 0                                         *)
(***************************************************************************)
RatLe(a, b) == a[1] * b[2] <= b[1] * a[2]
RatMax(a, b) == IF RatLe(a, b) THEN b ELSE a

\* values random.uniform(0, 1) returns in the model: 0 and 1/2, of [0, 1)
Samples == {<<0, 1>>, <<1, 2>>}
Zero == <<0, 1>>

(***************************************************************************)
(* Graphs                                                                  *)
(***************************************************************************)
\* friendship rows of the edge file: the path 1-2-...-MaxId and the chord 1-3
EdgeUniverse == {{k, k + 1} : k \in 1 .. (MaxId - 1)} \cup {{1, 3}}
EdgeLists == SUBSET EdgeUniverse

\* nx.Graph().add_edges_from(edges): the nodes are the endpoints of the edges
create_graph(edges) == [nodes |-> UNION edges, edges |-> edges]

\* any nx.Graph over the ids: nodes without an edge are allowed
Graphs ==
    {[nodes |-> N, edges |-> E] :
        N \in SUBSET IDs, E \in SUBSET EdgeUniverse}

WellFormed(g) == \A e \in g.edges : e \subseteq g.nodes

neighbors(g, user) == {v \in g.nodes : {user, v} \in g.edges}

PathGraph == create_graph({{k, k + 1} : k \in 1 .. 3})

(***************************************************************************)
(* buy_products                                                            *)
(***************************************************************************)
\* prob = b / n raises ZeroDivisionError for a user without neighbours
buy_products_raises(g) == \E user \in g.nodes : neighbors(g, user) = {}

\* if prob >= random.uniform(0, 1), with prob = b / n and n > 0
converts(b, n, r) == b * r[2] >= r[1] * n

\* mutant: returns new_purchases alone
buy_products_mut(g, P, d) ==
    {user \in g.nodes :
        converts(Cardinality(neighbors(g, user) \cap P),
                 Cardinality(neighbors(g, user)), d[user])}
\* the returned set new_purchases.union(purchased), d[user] being the sample
\* drawn for user
buy_products(g, P, d) ==
    {user \in g.nodes :
        converts(Cardinality(neighbors(g, user) \cap P),
                 Cardinality(neighbors(g, user)), d[user])} \cup P

(***************************************************************************)
(* product_exposure_score                                                  *)
(***************************************************************************)
\* ceiling of 1000 / (1 + 10 * exp(-b / 2)) for b = 1 .. 10
ExposureProbMilli == <<142, 214, 310, 425, 550, 668, 769, 846, 901, 937>>

\* rand < 1 / (1 + 10 * np.exp(-b/2)); 1000 * rand is an integer for every sample
exposed(b, r) == 1000 * r[1] < ExposureProbMilli[b] * r[2]

\* mutant: counts every purchased id, a node of the graph or not
product_exposure_score_mut(g, P, d) ==
    Cardinality({user \in g.nodes :
        \/ user \in P
        \/ LET b == Cardinality(neighbors(g, user) \cap P)
           IN  b # 0 /\ exposed(b, d[user])}) + Cardinality(P \ g.nodes)
\* the returned count, d[user] being the sample drawn for user
product_exposure_score(g, P, d) ==
    Cardinality({user \in g.nodes :
        \/ user \in P
        \/ LET b == Cardinality(neighbors(g, user) \cap P)
           IN  b # 0 /\ exposed(b, d[user])})

(***************************************************************************)
(* get_influencers_cost                                                    *)
(***************************************************************************)
RECURSIVE get_influencers_cost(_, _)
get_influencers_cost(table, lst) ==
    IF lst = <<>> THEN 0
    ELSE (IF Head(lst) \in DOMAIN table THEN table[Head(lst)] ELSE 0)
         + get_influencers_cost(table, Tail(lst))

(***************************************************************************)
(* Praducci_simulation.py, __main__                                        *)
(***************************************************************************)
\* the CHANGE-marked influencer list: one or two distinct ids
InfluencerLists ==
    {<<u>> : u \in IDs} \cup {l \in IDs \X IDs : l[1] # l[2]}

\* cost tables of the run: MaxId has no row
MainCostTables ==
    {[u \in 1 .. (MaxId - 1) |-> IF u % 2 = 1 THEN a ELSE b] :
        a \in {300, 700}, b \in {300, 700}}

GreedyIdle ==
    /\ S = {} /\ total_cost = 0 /\ budget = 0 /\ best_v = None
    /\ best_value = Zero /\ idx = 0 /\ gains = <<>> /\ given = <<>>

MainIdle ==
    /\ influencers_cost = 0 /\ purchased = {} /\ i = 0 /\ score = None
    /\ rng_max = Zero /\ purchased0 = {}

Init ==
    /\ pc = "start"
    /\ net \in {create_graph(E) : E \in EdgeLists}
    /\ costs \in MainCostTables
    /\ influencers \in InfluencerLists
    /\ MainIdle
    /\ GreedyIdle

\* influencers_cost = get_influencers_cost(cost_path, influencers)
GetCost ==
    /\ pc = "start"
    /\ influencers_cost' = get_influencers_cost(costs, influencers)
    /\ pc' = "check"
    /\ UNCHANGED <<net, costs, influencers, purchased, i, score, rng_max,
                   purchased0, greedyVars>>

\* mutant: the ceiling itself already aborts the run
too_expensive_mut(c) == c >= CostCeiling
\* if influencers_cost > 1000
too_expensive(c) == c > CostCeiling

\* print("... too expensive! ..."); exit()
TooExpensive ==
    /\ pc = "check"
    /\ too_expensive(influencers_cost)
    /\ pc' = "exit"
    /\ UNCHANGED <<net, costs, influencers, mainVars, greedyVars>>

\* purchased = set(influencers)
StartRounds ==
    /\ pc = "check"
    /\ ~too_expensive(influencers_cost)
    /\ purchased' = Range(influencers)
    /\ purchased0' = Range(influencers)
    /\ i' = 0
    /\ pc' = "rounds"
    /\ UNCHANGED <<net, costs, influencers, influencers_cost, score, rng_max,
                   greedyVars>>

\* the largest sample of one call's draws (0 when nothing was drawn)
SampleMax(d) ==
    CHOOSE r \in Range(d) \cup {Zero} : \A q \in Range(d) : RatLe(q, r)

\* for i in range(6): purchased = buy_products(NoseBook_network, purchased)
BuyRound ==
    /\ pc = "rounds"
    /\ i < Rounds
    /\ \E d \in [net.nodes -> Samples] :
          IF buy_products_raises(net)
          THEN /\ pc' = "ZeroDivisionError"
               /\ UNCHANGED <<purchased, i, rng_max>>
          ELSE /\ purchased' = buy_products(net, purchased, d)
               /\ i' = i + 1
               /\ rng_max' = RatMax(rng_max, SampleMax(d))
               /\ pc' = pc
    /\ UNCHANGED <<net, costs, influencers, influencers_cost, score,
                   purchased0, greedyVars>>

\* score = product_exposure_score(NoseBook_network, purchased)
Score ==
    /\ pc = "rounds"
    /\ i = Rounds
    /\ \E d \in [net.nodes -> Samples] :
          score' = Some(product_exposure_score(net, purchased, d))
    /\ pc' = "done"
    /\ UNCHANGED <<net, costs, influencers, influencers_cost, purchased, i,
                   rng_max, purchased0, greedyVars>>

Next ==
    \/ GetCost
    \/ TooExpensive
    \/ StartRounds
    \/ BuyRound
    \/ Score

Spec == Init /\ [][Next]_vars

(***************************************************************************)
(* Claims about the __main__ run (checked under Spec)                      *)
(***************************************************************************)
\* C3: the purchased set at round 0 is the seed set, and no step of the run
\* (in particular no buy_products round) ever removes a node from it.
C3_PurchasedMonotone ==
    /\ [](pc = "rounds" /\ i = 0 => purchased = Range(influencers))
    /\ [][purchased \subseteq purchased']_vars

\* a round has been run and has converted somebody
C3_Witness ==
    /\ pc = "rounds"
    /\ i >= 2
    /\ purchased0 # purchased
    /\ purchased # net.nodes \cup purchased0

\* C4: on the path 1-2-3-4 seeded with {1}, when every sample is 0, the
\* purchased set is {1,2} after round 1, {1,2,3} after round 2 and
\* {1,2,3,4} from round 3 on.
C4_PathScenario ==
    (/\ net = PathGraph
     /\ purchased0 = {1}
     /\ pc \in {"rounds", "done"}
     /\ rng_max = Zero)
    => /\ (i = 1 => purchased = {1, 2})
       /\ (i = 2 => purchased = {1, 2, 3})
       /\ (i >= 3 => purchased = {1, 2, 3, 4})

\* C9: a total cost above the ceiling ends the run before any round and
\* any scoring; otherwise the score is taken once, after exactly Rounds
\* rounds.
C9_CeilingGuard ==
    /\ (pc = "exit" => influencers_cost > CostCeiling)
    /\ (influencers_cost > CostCeiling =>
            /\ pc \in {"check", "exit"}
            /\ i = 0 /\ purchased = {} /\ score = None)
    /\ (pc = "done" => i = Rounds /\ influencers_cost <= CostCeiling)
    /\ (score # None <=> pc = "done")
    /\ (pc = "rounds" => i <= Rounds /\ influencers_cost <= CostCeiling)

\* the run has been aborted by the guard
C9_Witness ==
    /\ pc = "exit"
    /\ influencers_cost > CostCeiling
    /\ Len(influencers) = 2

\* C7: the score lies in 0 .. |V| and counts every purchased node, so it is
\* at least the number of purchased nodes; a node that is not purchased and
\* has no purchased neighbour is never counted.
C7_ScoreCountsPurchased ==
    pc = "done" =>
        /\ 0 <= score[1] /\ score[1] <= Cardinality(net.nodes)
        /\ score[1] >= Cardinality(purchased)
        /\ score[1] <= Cardinality({u \in net.nodes :
                        u \in purchased \/ neighbors(net, u) \cap purchased # {}})

\* C7 as amended: the purchased nodes the score counts are those that are
\* nodes of the graph.
C7_ScoreBounds ==
    pc = "done" =>
        /\ 0 <= score[1] /\ score[1] <= Cardinality(net.nodes)
        /\ score[1] >= Cardinality(purchased \cap net.nodes)
        /\ score[1] <= Cardinality({u \in net.nodes :
                        u \in purchased \/ neighbors(net, u) \cap purchased # {}})

\* a score that counts a purchased node, an exposed neighbour of one, and
\* leaves out another neighbour
C7_Witness ==
    /\ pc = "done"
    /\ purchased \cap net.nodes # {}
    /\ score[1] > Cardinality(purchased \cap net.nodes)
    /\ score[1] < Cardinality(net.nodes)

(***************************************************************************)
(* Direct calls of buy_products and product_exposure_score                 *)
(***************************************************************************)
InitFn ==
    /\ pc = "idle"
    /\ net \in {g \in Graphs : WellFormed(g)}
    /\ costs = <<>>
    /\ influencers = <<>>
    /\ purchased \in SUBSET IDs
    /\ purchased0 = purchased
    /\ influencers_cost = 0 /\ i = 0 /\ score = None /\ rng_max = Zero
    /\ GreedyIdle

\* purchased = buy_products(net, purchased)
CallBuyProducts ==
    /\ pc \in {"idle", "bought", "scored"}
    /\ i < MaxCalls
    /\ \E d \in [net.nodes -> Samples] :
          IF buy_products_raises(net)
          THEN /\ pc' = "ZeroDivisionError"
               /\ UNCHANGED <<purchased, i, rng_max>>
          ELSE /\ purchased' = buy_products(net, purchased, d)
               /\ i' = i + 1
               /\ rng_max' = RatMax(rng_max, SampleMax(d))
               /\ pc' = "bought"
    /\ UNCHANGED <<net, costs, influencers, influencers_cost, score,
                   purchased0, greedyVars>>

\* score = product_exposure_score(net, purchased)
CallExposureScore ==
    /\ pc \in {"idle", "bought", "scored"}
    /\ i < MaxCalls
    /\ \E d \in [net.nodes -> Samples] :
          /\ score' = Some(product_exposure_score(net, purchased, d))
          /\ rng_max' = RatMax(rng_max, SampleMax(d))
    /\ i' = i + 1
    /\ pc' = "scored"
    /\ UNCHANGED <<net, costs, influencers, influencers_cost, purchased,
                   purchased0, greedyVars>>

NextFn ==
    \/ CallBuyProducts
    \/ CallExposureScore

SpecFn == InitFn /\ [][NextFn]_vars

\* C5: on a graph with an isolated node u, buy_products does not fail and
\* never adds u to a purchased set that did not hold it.
C5_IsolatedNodeNeverConverts ==
    \A u \in net.nodes :
        neighbors(net, u) = {} =>
            /\ pc # "ZeroDivisionError"
            /\ (u \notin purchased0 => u \notin purchased)

(***************************************************************************)
(* selection_of_nodes.py                                                   *)
(***************************************************************************)
\* the graphs of the selection script: the edge files over the path 1-2-3
SelectEdgeLists == SUBSET {{1, 2}, {2, 3}}
CostValues == {0, 150, 300, 400}
Budgets == {0, 300, budget_default}

\* cost tables with a row for every node, or for every node but one
SelectCostTables(g) ==
    UNION {[U -> CostValues] : U \in {g.nodes} \cup {g.nodes \ {u} : u \in g.nodes}}

\* compute_weighted_centrality(net).index: the nodes in descending order of
\* the weighted centrality, here any order of the nodes
Rankings(g) ==
    {r \in [1 .. Cardinality(g.nodes) -> g.nodes] :
        \A a, b \in DOMAIN r : a # b => r[a] # r[b]}

\* costs.loc[v, 'cost'] raises KeyError for a user without a row
KeyError(table, lst) == \E k \in DOMAIN lst : lst[k] \notin DOMAIN table

Prefix(lst, n) == SubSeq(lst, 1, IF Len(lst) < n THEN Len(lst) ELSE n)

\* affordable_influencers[:top_n], every ranked node having a row
select_influencers(ranking, table) ==
    LET keep(v) == table[v] <= max_cost
    IN  Prefix(SelectSeq(ranking, keep), top_n)

(***************************************************************************)
(* Gains: avg_mv / cost as <<total_mv, iterations * cost>>.  cost is a     *)
(* numpy scalar, so a zero cost gives inf, -inf or nan and no exception:   *)
(* den = 0 stands for +inf (num > 0), -inf (num < 0) and nan (num = 0).    *)
(***************************************************************************)
IsNaN(g) == g[1] = 0 /\ g[2] = 0

Sign(n) == IF n > 0 THEN 1 ELSE IF n < 0 THEN -1 ELSE 0

\* a > b of two floats: false when either is nan
GainGt(a, b) ==
    /\ ~IsNaN(a)
    /\ ~IsNaN(b)
    /\ IF a[2] = 0 /\ b[2] = 0
       THEN Sign(a[1]) > Sign(b[1])
       ELSE a[1] * b[2] > b[1] * a[2]

\* a >= b of two floats
GainGe(a, b) == ~IsNaN(a) /\ ~IsNaN(b) /\ ~GainGt(b, a)

RECURSIVE SumsOf(_, _)
SumsOf(n, X) ==
    IF n = 0 THEN {0} ELSE {a + b : a \in X, b \in SumsOf(n - 1, X)}

\* the values one mv = score(S | {v}) - score(S) can take
MvOutcomes(g, sel, v) ==
    {product_exposure_score(g, sel \cup {v}, d1)
        - product_exposure_score(g, sel, d2) :
            d1 \in [g.nodes -> Samples], d2 \in [g.nodes -> Samples]}

\* the values total_mv can take after the iterations
TotalMvOutcomes(g, sel, v) == SumsOf(Iterations, MvOutcomes(g, sel, v))

\* avg_mv = total_mv / iterations; return avg_mv / cost
compute_avg_marginal_gain(total_mv, cost) == <<total_mv, Iterations * cost>>

\* mutant: the cost already spent is left out of the check
affordable_mut(spent, v_cost, b) == v_cost <= b
\* if total_cost + v_cost <= budget
affordable(spent, v_cost, b) == spent + v_cost <= b

\* mutant: a candidate is taken only when it beats best_value
takes_best_mut(bv, bval, avg_mv) == GainGt(avg_mv, bval)
\* if best_v is None or avg_mv > best_value
takes_best(bv, bval, avg_mv) == bv = None \/ GainGt(avg_mv, bval)

\* mutant: the committed node stays in the list
remove_mut(lst, v) == lst
\* influencers.remove(best_v): drops the first occurrence
remove(lst, v) ==
    LET k == CHOOSE j \in DOMAIN lst :
                 lst[j] = v /\ \A h \in 1 .. (j - 1) : lst[h] # v
    IN  SubSeq(lst, 1, k - 1) \o SubSeq(lst, k + 1, Len(lst))

InitSelect ==
    /\ pc = "start"
    /\ net \in {create_graph(E) : E \in SelectEdgeLists}
    /\ costs \in SelectCostTables(net)
    /\ budget \in Budgets
    /\ influencers = <<>>
    /\ MainIdle
    /\ S = {} /\ total_cost = 0 /\ best_v = None /\ best_value = Zero
    /\ idx = 0 /\ gains = <<>> /\ given = <<>>

\* selected_influencers = select_influencers(NoseBook_network, 'costs.csv')
SelectInfluencers ==
    /\ pc = "start"
    /\ \E ranking \in Rankings(net) :
          IF KeyError(costs, ranking)
          THEN /\ pc' = "KeyError"
               /\ UNCHANGED <<influencers, given>>
          ELSE /\ influencers' = select_influencers(ranking, costs)
               /\ given' = influencers'
               /\ pc' = "greedy"
    /\ UNCHANGED <<net, costs, mainVars, S, total_cost, budget, best_v,
                   best_value, idx, gains>>

\* greedy_influencer_selection(...): S = set(); total_cost = 0
EnterGreedy ==
    /\ pc = "greedy"
    /\ S' = {}
    /\ total_cost' = 0
    /\ pc' = "while"
    /\ UNCHANGED <<net, costs, influencers, mainVars, budget, best_v,
                   best_value, idx, gains, given>>

\* while True: best_v = None; best_value = 0
BeginRound ==
    /\ pc = "while"
    /\ best_v' = None
    /\ best_value' = Zero
    /\ idx' = 1
    /\ gains' = [k \in DOMAIN influencers |-> None]
    /\ pc' = "for"
    /\ UNCHANGED <<net, costs, influencers, mainVars, S, total_cost, budget,
                   given>>

\* one pass of the body of: for v in influencers
ForBody ==
    /\ pc = "for"
    /\ idx <= Len(influencers)
    /\ LET v == influencers[idx] IN
          IF v \notin DOMAIN costs
          THEN /\ pc' = "KeyError"
               /\ UNCHANGED <<idx, gains, best_v, best_value>>
          ELSE /\ pc' = pc
               /\ idx' = idx + 1
               /\ IF affordable(total_cost, costs[v], budget)
                  THEN \E total_mv \in TotalMvOutcomes(net, S, v) :
                          LET avg_mv == compute_avg_marginal_gain(total_mv, costs[v])
                          IN  /\ gains' = [gains EXCEPT ![idx] = avg_mv]
                              /\ IF takes_best(best_v, best_value, avg_mv)
                                 THEN /\ best_v' = Some(v)
                                      /\ best_value' = avg_mv
                                 ELSE UNCHANGED <<best_v, best_value>>
                  ELSE UNCHANGED <<gains, best_v, best_value>>
    /\ UNCHANGED <<net, costs, influencers, mainVars, S, total_cost, budget,
                   given>>

\* if best_v is None: break, then return list(S)
Break ==
    /\ pc = "for"
    /\ idx > Len(influencers)
    /\ best_v = None
    /\ pc' = "done"
    /\ UNCHANGED <<net, costs, influencers, mainVars, greedyVars>>

\* S.add(best_v); influencers.remove(best_v); total_cost += cost of best_v
Commit ==
    /\ pc = "for"
    /\ idx > Len(influencers)
    /\ best_v # None
    /\ S' = S \cup {best_v[1]}
    /\ influencers' = remove(influencers, best_v[1])
    /\ total_cost' = total_cost + costs[best_v[1]]
    /\ gains' = <<>>
    /\ pc' = "while"
    /\ UNCHANGED <<net, costs, mainVars, budget, best_v, best_value, idx,
                   given>>

NextSelect ==
    \/ SelectInfluencers
    \/ EnterGreedy
    \/ BeginRound
    \/ ForBody
    \/ Break
    \/ Commit

SpecSelect == InitSelect /\ [][NextSelect]_vars

(***************************************************************************)
(* Claims about the selection script (checked under SpecSelect)            *)
(***************************************************************************)
RECURSIVE SumCost(_, _)
SumCost(table, X) ==
    IF X = {} THEN 0
    ELSE LET v == CHOOSE u \in X : TRUE
         IN  table[v] + SumCost(table, X \ {v})

\* the for loop has passed the last candidate
LoopExit == pc = "for" /\ idx > Len(influencers)

\* the positions of the list that are affordable in this round
Affordable ==
    {k \in DOMAIN influencers :
        influencers[k] \in DOMAIN costs
        /\ total_cost + costs[influencers[k]] <= budget}

\* C1: the costs of the nodes in S never add up to more than the budget,
\* after every commit and in the returned result, whatever the oracle
\* returned.
C1_BudgetRespected == SumCost(costs, S) <= budget

\* the budget is used up by two commits and a candidate is left over
C1_Witness ==
    /\ pc = "done"
    /\ Cardinality(S) >= 2
    /\ SumCost(costs, S) = budget
    /\ influencers # <<>>

\* C2: a node is committed only with a strictly positive gain; when no
\* affordable candidate has one, the round ends the selection.
\* (Stated as "the gain is not <= 0", so that a nan gain does not count
\* against it.)
C2_OnlyPositiveGainCommitted ==
    (LoopExit /\ best_v # None) => ~GainGe(Zero, best_value)

\* C2 as amended: a round ends the selection exactly when no remaining
\* candidate is affordable; whenever one is, the round commits a node,
\* whatever the sign of its gain.
C2_StopsOnlyWhenNothingAffordable ==
    /\ LoopExit => (best_v = None <=> Affordable = {})
    /\ pc = "done" => Affordable = {}

\* a node has been committed with a negative gain
C2_Witness ==
    /\ pc = "while"
    /\ best_v # None
    /\ best_v[1] \in S
    /\ GainGt(Zero, best_value)

\* C6: no cost lookup fails on a node without a row in the cost table;
\* select_influencers keeps such a node as a candidate.
C6_AbsentCostIsZero ==
    /\ pc # "KeyError"
    /\ pc \in {"greedy", "while", "for", "done"} =>
          (net.nodes \ DOMAIN costs) \subseteq Range(given)

\* the steps the script can still take are at most Rank: a round is one
\* BeginRound, one ForBody per candidate and one Commit or Break
RoundSteps == Cardinality(net.nodes) + 3
Rank ==
    CASE pc = "start" -> (Cardinality(net.nodes) + 1) * RoundSteps + 2
      [] pc = "greedy" -> (Len(influencers) + 1) * RoundSteps + 1
      [] pc = "while" -> (Len(influencers) + 1) * RoundSteps
      [] pc = "for" -> Len(influencers) * RoundSteps
                          + (Len(influencers) - idx + 1) + 1
      [] OTHER -> 0

\* C8: the selection terminates (every step lowers Rank, which stays >= 0,
\* and the script stops only at the return or at an exception); every commit
\* moves exactly one node from the list into S, so there are at most
\* Len(given) commits; S is made of given candidates and shares no node with
\* the remaining list.
C8_TerminatesWithinCandidates ==
    /\ [](/\ Rank >= 0
          /\ pc \in {"done", "KeyError"} \/ ENABLED NextSelect
          /\ S \subseteq Range(given)
          /\ S \cap Range(influencers) = {}
          /\ pc \in {"greedy", "while", "for", "done"} =>
                Len(influencers) + Cardinality(S) = Len(given))
    /\ [][/\ Rank' < Rank
           /\ S' # S =>
                /\ Cardinality(S') = Cardinality(S) + 1
                /\ Len(influencers') = Len(influencers) - 1
                /\ Range(influencers') = Range(influencers) \ (S' \ S)]_vars

\* every one of three candidates has been committed
C8_Witness ==
    /\ pc = "done"
    /\ Len(given) = 3
    /\ Cardinality(S) = 3
    /\ influencers = <<>>

\* C10: the node a round commits has the largest gain sampled in that round
\* among the affordable candidates, and is the first of the list with it.
\* (It is compared with the other candidates whose gain is a number.)
C10_CommitsFirstLargest ==
    (LoopExit /\ best_v # None) =>
        \E k \in DOMAIN influencers :
            /\ influencers[k] = best_v[1]
            /\ gains[k] # None
            /\ \A j \in DOMAIN influencers \ {k} :
                  (gains[j] # None /\ ~IsNaN(gains[j])) =>
                      /\ GainGe(gains[k], gains[j])
                      /\ GainGe(gains[j], gains[k]) => k < j

====
